---- MODULE Spec2Model ----
(***************************************************************************)
(* A model of arena.h: a bump allocator over one caller-supplied buffer    *)
(* (struct Arena: beg, end, jmpbuf), its by-value scratch copies (Shadow), *)
(* its pushed / popped tail arenas, the setjmp based out-of-memory channel *)
(* (ArenaOOM), the growable slice (Push / slice_grow) and the Arena owned  *)
(* strings (astrclone, astrconcat, astrfmt).                               *)
(*                                                                         *)
(* Addresses are natural numbers, NULL is 0.  The build that is modelled   *)
(* is the default one: GNU C on an LP64 target, OOM_DIE not defined.       *)
(***************************************************************************)
EXTENDS Integers, Sequences, FiniteSets, TLC

VARIABLES
    arenas,   \* Seq of struct Arena: the Arena objects of the caller, oldest first
    scope,    \* Seq of [kind, parent, saved]: what each Arena object is in the caller
    mem,      \* the bytes of the backing buffer: address -> 0..255
    pc,       \* where control is: "run", "handler", "aborted", "trap", "ub"
    ret,      \* value of the last completed expression: [op, val, via]
    jmpbufs,  \* slots that setjmp has filled
    slice,    \* the caller's slice object: [data, len, cap]
    elem,     \* its element type and the values pushed: [size, align, seed]
    others,   \* the caller allocated something else since the slice's first Push
    str,      \* the caller's astr object: [data, len]
    steps,    \* statements the caller has executed, where a run is kept short
    held      \* the blocks arena_alloc returned that are still in use: [owner, lo, hi, id]

vars == <<arenas, scope, mem, pc, ret, jmpbufs, slice, elem, others, str, steps, held>>

----------------------------------------------------------------------------
(* Bounds of the model *)

\* allocation requests carry a count of 0, 1 or MaxCount
MaxCount == 3
\* at most this many Arena objects exist at a time
MaxDepth == 3
\* a run of SpecView executes at most this many statements
MaxSteps == 5
\* the byte spans handed to the string functions are at most this long
MaxSpan == 2
\* a run of SpecStr executes at most this many statements
MaxStr == 3
\* a run of SpecHeld makes at most this many allocations
MaxAllocs == 3

(* Platform and program constants *)

\* sizeof(void *), also _Alignof(void *)
PtrSize == 8
\* number of words of a __builtin_setjmp buffer
JBLEN == 5
\* _Alignof(max_align_t)
MAX_ALIGN == 16

NULL == 0

\* enum { _NO_INIT, _OOM_NULL, _PUSH_END }
F_NO_INIT == 1
F_OOM_NULL == 2
F_PUSH_END == 4

----------------------------------------------------------------------------
(* C arithmetic *)

\* x & y on non-negative integers
RECURSIVE BitAnd(_, _)
BitAnd(x, y) ==
    IF x = 0 \/ y = 0 THEN 0
    ELSE (x % 2) * (y % 2) + 2 * BitAnd(x \div 2, y \div 2)

\* The low 16 bits of -(uintptr_t)p.  Every mask that is and-ed with it is
\* below 2^16, so the higher bits of the 64 bit negation are never read.
NegLow(p) == (65536 - (p % 65536)) % 65536

\* a / b of C for b > 0: the quotient is truncated toward zero
CDiv(a, b) == IF a >= 0 THEN a \div b ELSE -((-a) \div b)

\* mask & f for a single-bit f
HasFlag(mask, f) == (mask \div f) % 2 = 1

\* the addresses lo .. lo + n - 1
Range(lo, n) == lo .. (lo + n - 1)

----------------------------------------------------------------------------
(* NewArena *)

NewArena(base, size) ==
    [beg |-> base, end |-> IF base # NULL THEN base + size ELSE 0, jmpbuf |-> NULL]

----------------------------------------------------------------------------
(* arena_alloc as a function of the Arena value and the arguments.         *)
(* Result: the Arena afterwards, the pointer returned, how the call ended  *)
(* ("ok", "null", "longjmp", "trap") and the bytes memset clears.          *)

\* mutant: the failing call has already moved the cursor
handle_oom_moved(a, flags) ==
    IF HasFlag(flags, F_OOM_NULL) \/ a.jmpbuf = NULL
    THEN [arena |-> [a EXCEPT !.beg = a.end], ptr |-> NULL, out |-> "null", zero |-> {}]
    ELSE [arena |-> a, ptr |-> NULL, out |-> "longjmp", zero |-> {}]

\* mutant: && in place of ||
handle_oom_and(a, flags) ==
    IF HasFlag(flags, F_OOM_NULL) /\ a.jmpbuf = NULL
    THEN [arena |-> a, ptr |-> NULL, out |-> "null", zero |-> {}]
    ELSE [arena |-> a, ptr |-> NULL, out |-> "longjmp", zero |-> {}]

handle_oom(a, flags) ==
    IF HasFlag(flags, F_OOM_NULL) \/ a.jmpbuf = NULL
    THEN [arena |-> a, ptr |-> NULL, out |-> "null", zero |-> {}]
    ELSE [arena |-> a, ptr |-> NULL, out |-> "longjmp", zero |-> {}]

\* mutant: _PUSH_END takes one element from the end, whatever the count
arena_alloc_one(a, size, align, count, flags) ==
    LET current == a.beg
        avail == a.end - current
        padding == BitAnd(NegLow(current), align - 1)
        total_size == size * count
    IN  IF count < 0
        THEN [arena |-> a, ptr |-> NULL, out |-> "trap", zero |-> {}]
        ELSE IF count > CDiv(avail - padding, size)
        THEN handle_oom(a, flags)
        ELSE IF HasFlag(flags, F_PUSH_END)
        THEN [arena |-> [a EXCEPT !.end = a.end - size],
              ptr |-> a.end - size,
              out |-> "ok",
              zero |-> IF HasFlag(flags, F_NO_INIT) THEN {}
                       ELSE Range(a.end - size, size)]
        ELSE [arena |-> [a EXCEPT !.beg = current + padding + total_size],
              ptr |-> current + padding,
              out |-> "ok",
              zero |-> IF HasFlag(flags, F_NO_INIT) THEN {}
                       ELSE Range(current + padding, total_size)]

arena_alloc(a, size, align, count, flags) ==
    LET current == a.beg
        avail == a.end - current
        padding == BitAnd(NegLow(current), align - 1)
        total_size == size * count
    IN  IF count < 0
        THEN [arena |-> a, ptr |-> NULL, out |-> "trap", zero |-> {}]
        ELSE IF count > CDiv(avail - padding, size)
        THEN handle_oom(a, flags)
        ELSE IF HasFlag(flags, F_PUSH_END)
        THEN [arena |-> [a EXCEPT !.end = a.end - total_size],
              ptr |-> a.end - total_size,
              out |-> "ok",
              zero |-> IF HasFlag(flags, F_NO_INIT) THEN {}
                       ELSE Range(a.end - total_size, total_size)]
        ELSE [arena |-> [a EXCEPT !.beg = current + padding + total_size],
              ptr |-> current + padding,
              out |-> "ok",
              zero |-> IF HasFlag(flags, F_NO_INIT) THEN {}
                       ELSE Range(current + padding, total_size)]

\* memset(ptr, 0, total_size)
memset0(m, zero) == [x \in DOMAIN m |-> IF x \in zero THEN 0 ELSE m[x]]

----------------------------------------------------------------------------
(* The caller's Arena objects *)

Live(i) == i \in 1..Len(scope) /\ scope[i].kind # "dead"

\* Shadow(arena) declares a new object under the name of the one it copies:
\* until the block ends the name denotes the copy.
Hidden(i) == \E j \in 1..Len(scope) :
                 scope[j].kind = "shadow" /\ scope[j].parent = i

\* Every pop so far took the newest Arena object: none below a live one is
\* dead.  A caller that has popped out of order makes no further call.
InOrder == \A j \in 1..Len(scope) : scope[j].kind # "dead"

Nameable(i) == Live(i) /\ ~Hidden(i) /\ InOrder

\* number of objects left when the dead ones at the end are dropped
LiveLen(sc) ==
    LET live == {j \in 1..Len(sc) : sc[j].kind # "dead"}
    IN  IF live = {} THEN 0 ELSE CHOOSE j \in live : \A k \in live : k <= j

Requests ==
    [size : {1, 16}, align : {1, 8}, count : {0, 1, MaxCount}, flags : 0..7]

\* mutant: true when the install succeeded
ArenaOOM_value_installed(jmpbuf, sj) == jmpbuf # NULL /\ sj = 0

\* value of the expression  !a_->jmpbuf || setjmp(a_->jmpbuf)
ArenaOOM_value(jmpbuf, sj) == jmpbuf = NULL \/ sj # 0

\* longjmp(arena->jmpbuf, 1): setjmp returns 1 inside the ArenaOOM expression
\* that filled the slot
Escape(a) ==
    /\ pc' = "handler"
    /\ ret' = [op |-> "ArenaOOM", val |-> ArenaOOM_value(a.jmpbuf, 1),
               via |-> "longjmp", jb |-> a.jmpbuf]

Returns(op, val) ==
    /\ pc' = "run"
    /\ ret' = [op |-> op, val |-> val, via |-> "return", jb |-> NULL]

Trap ==
    /\ pc' = "trap"
    /\ ret' = [op |-> "assert", val |-> NULL, via |-> "abort", jb |-> NULL]

\* a store through a pointer outside the buffer
Wild ==
    /\ pc' = "ub"
    /\ ret' = [op |-> "store", val |-> NULL, via |-> "abort", jb |-> NULL]

\* mutant: the name of a shadow denotes the Arena it was copied from as well
Store_aliased(i, a) ==
    IF scope[i].kind = "shadow"
    THEN [arenas EXCEPT ![i] = a, ![scope[i].parent] = a]
    ELSE [arenas EXCEPT ![i] = a]

\* the assignments through the pointer arena_i: *arena_i becomes a
Store(i, a) == [arenas EXCEPT ![i] = a]

----------------------------------------------------------------------------
(* Operations *)

\* arena_alloc(&arena_i, size, align, count, flags)
Alloc(i, req) ==
    /\ pc = "run"
    /\ Nameable(i)
    /\ \E r \in {arena_alloc(arenas[i], req.size, req.align, req.count, req.flags)} :
           CASE r.out = "ok" /\ r.zero \subseteq DOMAIN mem ->
                    /\ arenas' = Store(i, r.arena)
                    /\ mem' = memset0(mem, r.zero)
                    /\ Returns("alloc", r.ptr)
             [] r.out = "ok" /\ ~(r.zero \subseteq DOMAIN mem) ->
                    /\ arenas' = Store(i, r.arena)
                    /\ Wild
                    /\ UNCHANGED mem
             [] r.out = "null" ->
                    /\ Returns("alloc", NULL)
                    /\ UNCHANGED <<arenas, mem>>
             [] r.out = "longjmp" ->
                    /\ Escape(arenas[i])
                    /\ UNCHANGED <<arenas, mem>>
             [] r.out = "trap" ->
                    /\ Trap
                    /\ UNCHANGED <<arenas, mem>>
    /\ others' = (others \/ slice.cap # 0)
    /\ UNCHANGED <<scope, jmpbufs, slice, elem, str>>

\* New(a_, void *, _JBLEN, OOM_NULL)
jmpbuf_alloc(a) == arena_alloc(a, PtrSize, PtrSize, JBLEN, F_OOM_NULL)

\* ArenaOOM(&arena_i)
ArenaOOM(i) ==
    /\ pc = "run"
    /\ Nameable(i)
    /\ \E r \in {jmpbuf_alloc(arenas[i])} :
           CASE r.out \in {"ok", "null"} /\ r.zero \subseteq DOMAIN mem ->
                    /\ arenas' = Store(i, [r.arena EXCEPT !.jmpbuf = r.ptr])
                    /\ mem' = memset0(mem, r.zero)
                    /\ jmpbufs' = IF r.ptr # NULL THEN jmpbufs \cup {r.ptr} ELSE jmpbufs
                    /\ pc' = IF ArenaOOM_value(r.ptr, 0) THEN "handler" ELSE "run"
                    /\ ret' = [op |-> "ArenaOOM", val |-> ArenaOOM_value(r.ptr, 0),
                               via |-> IF r.ptr # NULL THEN "fresh" ELSE "nojmpbuf",
                               jb |-> r.ptr]
             [] r.out = "ok" /\ ~(r.zero \subseteq DOMAIN mem) ->
                    /\ arenas' = Store(i, r.arena)
                    /\ Wild
                    /\ UNCHANGED <<mem, jmpbufs>>
             [] r.out = "longjmp" ->
                    /\ Escape(arenas[i])
                    /\ UNCHANGED <<arenas, mem, jmpbufs>>
             [] r.out = "trap" ->
                    /\ Trap
                    /\ UNCHANGED <<arenas, mem, jmpbufs>>
    /\ others' = (others \/ slice.cap # 0)
    /\ UNCHANGED <<scope, slice, elem, str>>

\* if (ArenaOOM(&arena)) { abort(); }
Abort ==
    /\ pc = "handler"
    /\ pc' = "aborted"
    /\ UNCHANGED <<arenas, scope, mem, ret, jmpbufs, slice, elem, others, str>>

\* if (ArenaOOM(&arena)) { ... } with a body that gives up the unit of work
\* and goes on
Continue ==
    /\ pc = "handler"
    /\ pc' = "run"
    /\ UNCHANGED <<arenas, scope, mem, ret, jmpbufs, slice, elem, others, str>>

\* { Shadow(arena_i); ...
Shadow(i) ==
    /\ pc = "run"
    /\ Nameable(i)
    /\ Len(arenas) < MaxDepth
    /\ arenas' = Append(arenas, arenas[i])
    /\ scope' = Append(scope, [kind |-> "shadow", parent |-> i, saved |-> arenas[i]])
    /\ Returns("Shadow", NULL)
    /\ UNCHANGED <<mem, jmpbufs, slice, elem, others, str>>

\* ... }  the block of the shadow k ends; what was declared in it is gone
EndShadow(k) ==
    /\ pc = "run"
    /\ Live(k)
    /\ scope[k].kind = "shadow"
    /\ LET n == LiveLen(SubSeq(scope, 1, k - 1))
       IN  /\ arenas' = SubSeq(arenas, 1, n)
           /\ scope' = SubSeq(scope, 1, n)
    /\ Returns("EndShadow", NULL)
    /\ UNCHANGED <<mem, jmpbufs, slice, elem, others, str>>

PushArena(a) ==
    LET r == arena_alloc(a, 1, 1, CDiv(a.end - a.beg, 2), F_NO_INIT + F_PUSH_END)
    IN  [r EXCEPT !.zero = {}] @@ [tail |-> [a EXCEPT !.beg = r.ptr]]

\* Arena tmp[] = {PushArena(arena_i)};
PushArenaOp(i) ==
    /\ pc = "run"
    /\ Nameable(i)
    /\ Len(arenas) < MaxDepth
    /\ \E r \in {PushArena(arenas[i])} :
           CASE r.out \in {"ok", "null"} ->
                    /\ arenas' = Append(Store(i, r.arena), r.tail)
                    /\ scope' = Append(scope, [kind |-> "tail", parent |-> i,
                                               saved |-> arenas[i]])
                    /\ Returns("PushArena", r.ptr)
             [] r.out = "longjmp" ->
                    /\ Escape(arenas[i])
                    /\ UNCHANGED <<arenas, scope>>
             [] r.out = "trap" ->
                    /\ Trap
                    /\ UNCHANGED <<arenas, scope>>
    /\ others' = (others \/ slice.cap # 0)
    /\ UNCHANGED <<mem, jmpbufs, slice, elem, str>>

PopArena_assert(head, tail) == head.end <= tail.beg

PopArena(head, tail) == [head EXCEPT !.end = tail.end]

\* PopArena(arena_h, arena_t); arena_t is not used afterwards
PopArenaOp(h, t) ==
    /\ pc = "run"
    /\ Nameable(h)
    /\ Nameable(t)
    /\ h # t
    /\ scope[t].kind = "tail"
    /\ IF PopArena_assert(arenas[h], arenas[t])
       THEN LET as == Store(h, PopArena(arenas[h], arenas[t]))
                sc == [scope EXCEPT ![t].kind = "dead"]
                n == LiveLen(sc)
            IN  /\ arenas' = SubSeq(as, 1, n)
                /\ scope' = SubSeq(sc, 1, n)
                /\ Returns("PopArena", NULL)
       ELSE /\ Trap
            /\ UNCHANGED <<arenas, scope>>
    /\ UNCHANGED <<mem, jmpbufs, slice, elem, others, str>>

----------------------------------------------------------------------------
(* The growable slice *)

RECURSIVE Pow256(_)
Pow256(n) == IF n = 0 THEN 1 ELSE 256 * Pow256(n - 1)

\* the object of size bytes at p holds v (little endian)
StoreElem(m, p, size, v) ==
    [x \in DOMAIN m |->
        IF x \in Range(p, size) THEN (v \div Pow256(x - p)) % 256 ELSE m[x]]

LoadElem(m, p, size) ==
    LET RECURSIVE Sum(_)
        Sum(j) == IF j = size THEN 0 ELSE m[p + j] * Pow256(j) + Sum(j + 1)
    IN  Sum(0)

\* string literals of the caller, in static storage: "ab", "c" and ""
Text == (200 :> 97 @@ 201 :> 98 @@ 202 :> 0 @@ 210 :> 99 @@ 211 :> 0 @@ 220 :> 0)

\* the byte at address x
Byte(m, x) == IF x \in DOMAIN Text THEN Text[x] ELSE m[x]

\* addresses a load may name
Readable(m) == DOMAIN m \cup DOMAIN Text

\* mutant: the elements are not copied to the new block
memmove_none(m, dest, src, n) == m

\* memmove(dest, src, n), also memcpy where the ranges do not overlap
memmove(m, dest, src, n) ==
    [x \in DOMAIN m |-> IF x \in Range(dest, n) THEN Byte(m, src + (x - dest)) ELSE m[x]]

\* the value the caller stores in element k:  *Push(&slice, arena) = value
Value(k) == (elem.seed + 211 * k) % Pow256(elem.size)

\* mutant: the capacity is taken for a number of bytes
grow_inplace_bytes(s, size, a) == s.data = a.beg - s.cap

\* the test of the branch "grow inplace": the slice ends where the Arena's
\* free space begins
grow_inplace(s, size, a) == s.data = a.beg - size * s.cap

\* slice_grow(&slice, size, align, a): the new slice header, the Arena, and
\* the bytes memmove copies; out is "ok" when the function returns
slice_grow(s, size, align, a) ==
    LET stay(out) == [slice |-> s, arena |-> a, out |-> out,
                      dest |-> NULL, src |-> NULL, n |-> 0]
    IN  IF ~(s.len >= 0 /\ s.cap >= s.len) THEN stay("trap")
        ELSE IF s.cap = 0
        THEN LET r == arena_alloc(a, size, align, MAX_ALIGN, F_NO_INIT)
             IN  IF r.out \in {"longjmp", "trap"} THEN stay(r.out)
                 ELSE [slice |-> [s EXCEPT !.cap = MAX_ALIGN, !.data = r.ptr],
                       arena |-> r.arena, out |-> "ok",
                       dest |-> NULL, src |-> NULL, n |-> 0]
        ELSE IF grow_inplace(s, size, a)
        THEN LET r == arena_alloc(a, size, 1, MAX_ALIGN, F_NO_INIT)
             IN  IF r.out \in {"longjmp", "trap"} THEN stay(r.out)
                 ELSE [slice |-> [s EXCEPT !.cap = s.cap + MAX_ALIGN],
                       arena |-> r.arena, out |-> "ok",
                       dest |-> NULL, src |-> NULL, n |-> 0]
        ELSE LET cap == s.cap + CDiv(s.cap, 2)
                 r == arena_alloc(a, size, align, cap, F_NO_INIT)
             IN  IF r.out \in {"longjmp", "trap"} THEN stay(r.out)
                 ELSE [slice |-> [s EXCEPT !.cap = cap, !.data = r.ptr],
                       arena |-> r.arena, out |-> "ok",
                       dest |-> r.ptr, src |-> s.data, n |-> size * s.len]

\* the bytes memmove reads and writes and the element at p are in the buffer
InBuffer(g, p) ==
    /\ Range(g.dest, g.n) \subseteq DOMAIN mem
    /\ Range(g.src, g.n) \subseteq Readable(mem)
    /\ Range(p, elem.size) \subseteq DOMAIN mem

\* *Push(&slice, arena_i) = Value(slice.len);
PushOp(i) ==
    /\ pc = "run"
    /\ Nameable(i)
    /\ \E g \in {IF slice.len >= slice.cap
                 THEN slice_grow(slice, elem.size, elem.align, arenas[i])
                 ELSE [slice |-> slice, arena |-> arenas[i], out |-> "ok",
                       dest |-> NULL, src |-> NULL, n |-> 0]} :
       \E p \in {g.slice.data + elem.size * g.slice.len} :
           CASE g.out = "ok" /\ InBuffer(g, p) ->
                    /\ arenas' = Store(i, g.arena)
                    /\ slice' = [g.slice EXCEPT !.len = @ + 1]
                    /\ mem' = StoreElem(memmove(mem, g.dest, g.src, g.n),
                                        p, elem.size, Value(g.slice.len))
                    /\ Returns("Push", p)
             [] g.out = "ok" /\ ~InBuffer(g, p) ->
                    /\ arenas' = Store(i, g.arena)
                    /\ slice' = [g.slice EXCEPT !.len = @ + 1]
                    /\ Wild
                    /\ UNCHANGED mem
             [] g.out = "longjmp" ->
                    /\ Escape(arenas[i])
                    /\ UNCHANGED <<arenas, slice, mem>>
             [] g.out = "trap" ->
                    /\ Trap
                    /\ UNCHANGED <<arenas, slice, mem>>
    /\ UNCHANGED <<scope, jmpbufs, elem, others, str>>

----------------------------------------------------------------------------
(* Arena owned strings.  An operation yields the Arena, the astr it       *)
(* returns, the memory, and out: "ok", "longjmp", "trap", or "ub" when it  *)
(* copies to or from an address that is no object.                         *)

RECURSIVE strlen(_)
strlen(p) == IF Text[p] = 0 THEN 0 ELSE 1 + strlen(p + 1)

astrclone(a, s, m) ==
    IF s.len = 0 \/ s.data + s.len = a.beg
    THEN [arena |-> a, str |-> s, mem |-> m, out |-> "ok"]
    ELSE LET r == arena_alloc(a, 1, 1, s.len, F_NO_INIT)
             s2 == [data |-> r.ptr, len |-> s.len]
         IN  IF r.out \in {"longjmp", "trap"}
             THEN [arena |-> a, str |-> s, mem |-> m, out |-> r.out]
             ELSE IF /\ Range(s2.data, s.len) \subseteq DOMAIN m
                     /\ Range(s.data, s.len) \subseteq Readable(m)
             THEN [arena |-> r.arena, str |-> s2,
                   mem |-> memmove(m, s2.data, s.data, s.len), out |-> "ok"]
             ELSE [arena |-> r.arena, str |-> s2, mem |-> m, out |-> "ub"]

astrconcat(a, head, tail, m) ==
    IF head.len = 0
    THEN IF tail.len # 0 /\ tail.data + tail.len = a.beg
         THEN [arena |-> a, str |-> tail, mem |-> m, out |-> "ok"]
         ELSE astrclone(a, tail, m)
    ELSE LET h == IF head.data + head.len # a.beg
                  THEN astrclone(a, head, m)
                  ELSE [arena |-> a, str |-> head, mem |-> m, out |-> "ok"]
         IN  IF h.out # "ok" THEN h
             ELSE LET t == astrclone(h.arena, tail, h.mem)
                  IN  [t EXCEPT !.str = [h.str EXCEPT !.len = @ + t.str.len]]

astrcopy(a, bytes, nbytes, m) == astrclone(a, [data |-> bytes, len |-> nbytes], m)

astrappend(a, head, bytes, nbytes, m) ==
    astrconcat(a, head, [data |-> bytes, len |-> nbytes], m)

astrcpy(a, lit, m) == astrcopy(a, lit, strlen(lit), m)

astrcat(a, head, lit, m) == astrappend(a, head, lit, strlen(lit), m)

\* the characters vsnprintf produces for "%d" and a value 0 <= n
RECURSIVE Digits(_)
Digits(n) == IF n < 10 THEN <<48 + n>> ELSE Append(Digits(n \div 10), 48 + (n % 10))

\* the bytes of seq, then a NUL, stored from p on
StoreText(m, p, seq) ==
    [x \in DOMAIN m |->
        IF x \in Range(p, Len(seq)) THEN seq[x - p + 1]
        ELSE IF x = p + Len(seq) THEN 0 ELSE m[x]]

\* astrfmt(a, "%d", n)
astrfmt(a, n, m) ==
    LET nbytes == Len(Digits(n))
        r == arena_alloc(a, 1, 1, nbytes + 1, F_NO_INIT)
        s2 == [data |-> r.ptr, len |-> nbytes]
    IN  IF r.out \in {"longjmp", "trap"}
        THEN [arena |-> a, str |-> s2, mem |-> m, out |-> r.out]
        ELSE IF Range(r.ptr, nbytes + 1) \subseteq DOMAIN m
        THEN [arena |-> [r.arena EXCEPT !.beg = @ - 1], str |-> s2,
              mem |-> StoreText(m, r.ptr, Digits(n)), out |-> "ok"]
        ELSE [arena |-> r.arena, str |-> s2, mem |-> m, out |-> "ub"]

\* str = <a string function>(arena_i, ...), with the result r of the function
AstrAssign(i, r) ==
    /\ pc = "run"
    /\ Nameable(i)
    /\ CASE r.out = "ok" ->
                /\ arenas' = Store(i, r.arena)
                /\ mem' = r.mem
                /\ str' = r.str
                /\ Returns("astr", r.str.data)
         [] r.out = "ub" ->
                /\ arenas' = Store(i, r.arena)
                /\ Wild
                /\ UNCHANGED <<mem, str>>
         [] r.out = "longjmp" ->
                /\ arenas' = Store(i, r.arena)
                /\ mem' = r.mem
                /\ Escape(r.arena)
                /\ UNCHANGED str
         [] r.out = "trap" ->
                /\ Trap
                /\ UNCHANGED <<arenas, mem, str>>
    /\ others' = (others \/ slice.cap # 0)
    /\ UNCHANGED <<scope, jmpbufs, slice, elem>>

\* str = astrcpy(arena_i, lit);
AstrCpy(i, lit) ==
    Nameable(i) /\ AstrAssign(i, astrcpy(arenas[i], lit, mem))

\* str = astrcat(arena_i, str, lit);
AstrCat(i, lit) ==
    Nameable(i) /\ AstrAssign(i, astrcat(arenas[i], str, lit, mem))

\* str = astrfmt(arena_i, "%d", n);
AstrFmt(i, n) ==
    Nameable(i) /\ AstrAssign(i, astrfmt(arenas[i], n, mem))

\* str = astrconcat(arena_i, head, tail);
AstrConcat(i, head, tail) ==
    Nameable(i) /\ AstrAssign(i, astrconcat(arenas[i], head, tail, mem))

\* memcmp(p, q, n): the difference of the first bytes that differ, or 0
RECURSIVE memcmp(_, _, _, _)
memcmp(m, p, q, n) ==
    IF n = 0 THEN 0
    ELSE IF Byte(m, p) # Byte(m, q) THEN Byte(m, p) - Byte(m, q)
    ELSE memcmp(m, p + 1, q + 1, n - 1)

\* mutant: the lengths are not compared
astrcmp_bytes(a, b, m) == a.len = 0 \/ memcmp(m, a.data, b.data, a.len) = 0

astrcmp(a, b, m) ==
    IF a.len # b.len THEN FALSE
    ELSE a.len = 0 \/ memcmp(m, a.data, b.data, a.len) = 0

(* uint64_t values are sequences of 8 bytes, least significant first *)

\* 0xcbf29ce484222325ull
FNV_offset == <<37, 35, 34, 132, 228, 156, 242, 203>>
\* 0x100000001b3ull
FNV_prime == <<179, 1, 0, 0, 0, 1, 0, 0>>

RECURSIVE BitXor(_, _)
BitXor(x, y) ==
    IF x = 0 /\ y = 0 THEN 0
    ELSE ((x + y) % 2) + 2 * BitXor(x \div 2, y \div 2)

\* (unsigned char)c ^ hash
Xor64(c, h) == [h EXCEPT ![1] = BitXor(c, h[1])]

\* x * y modulo 2^64
Mul64(x, y) ==
    LET RECURSIVE Column(_, _)
        \* the sum of the products x[i] * y[k + 1 - i] for i = 1..j
        Column(k, j) == IF j = 0 THEN 0 ELSE x[j] * y[k + 1 - j] + Column(k, j - 1)
        RECURSIVE Limbs(_, _)
        Limbs(k, carry) ==
            IF k > 8 THEN <<>>
            ELSE LET t == Column(k, k) + carry
                 IN  <<t % 256>> \o Limbs(k + 1, t \div 256)
    IN  Limbs(1, 0)

\* astrhash(key): the loop over key.data[0..len)
RECURSIVE astrhash_from(_, _, _, _)
astrhash_from(hash, key, i, m) ==
    IF i >= key.len THEN hash
    ELSE astrhash_from(Mul64(Xor64(Byte(m, key.data + i), hash), FNV_prime), key, i + 1, m)

astrhash(key, m) == astrhash_from(FNV_offset, key, 0, m)

\* strncmp(p, q, n): the sign of the first difference among at most n
\* characters, none of which follows a NUL; the values it can return when
\* it loads from an address outside every object
strncmp(m, p, q, n) ==
    LET RECURSIVE cmp(_)
        cmp(i) ==
            IF i >= n THEN {0}
            ELSE IF (p + i) \notin Readable(m) \/ (q + i) \notin Readable(m)
            THEN {-1, 0, 1}
            ELSE IF Byte(m, p + i) # Byte(m, q + i)
            THEN {IF Byte(m, p + i) < Byte(m, q + i) THEN -1 ELSE 1}
            ELSE IF Byte(m, p + i) = 0 THEN {0}
            ELSE cmp(i + 1)
    IN  cmp(0)

\* CC_CMPR: the three-way comparison of two astr keys
CC_CMPR(val_1, val_2, m) == strncmp(m, val_1.data, val_2.data, val_1.len)

\* CC_HASH: the hash of an astr key
CC_HASH(val, m) == astrhash(val, m)

----------------------------------------------------------------------------
(* Specification of one Arena and its failure channel *)

\* <<mem, size>> handed to NewArena
Buffers == {<<0, 4>>, <<8, 64>>, <<9, 5>>}

\* the bytes of a buffer of the caller, all holding the value fill
Buffer(b, fill) == [x \in Range(b[1], IF b[1] # NULL THEN b[2] ELSE 0) |-> fill]

InitArena(bufs, fill) ==
    /\ \E b \in bufs :
          /\ arenas = <<NewArena(b[1], b[2])>>
          /\ scope = <<[kind |-> "root", parent |-> 0, saved |-> NewArena(b[1], b[2])]>>
          /\ mem = Buffer(b, fill)
    /\ pc = "run"
    /\ ret = [op |-> "NewArena", val |-> NULL, via |-> "return", jb |-> NULL]
    /\ jmpbufs = {}
    /\ slice = [data |-> NULL, len |-> 0, cap |-> 0]
    /\ elem = [size |-> 1, align |-> 1, seed |-> 0]
    /\ others = FALSE
    /\ str = [data |-> NULL, len |-> 0]
    /\ steps = 0
    /\ held = {}

\* the buffers of Spec are zeroed storage
Init == InitArena(Buffers, 0)

Next ==
    \/ \E req \in Requests : Alloc(1, req) /\ UNCHANGED <<steps, held>>
    \/ ArenaOOM(1) /\ UNCHANGED <<steps, held>>
    \/ Abort /\ UNCHANGED <<steps, held>>
    \/ Continue /\ UNCHANGED <<steps, held>>

Spec == Init /\ [][Next]_vars

----------------------------------------------------------------------------
(* Specification of an Arena and the tail arenas pushed from it and from   *)
(* one another.  The buffers are a few bytes of zeroed storage; one of     *)
(* them starts as in the usage comment, with ArenaOOM already evaluated.   *)

\* New(arena, byte, count, flags) and its variants with an alignment
SubRequests ==
    [size : {1}, align : {1, 2}, count : {0, 1, MaxCount}, flags : 0..7]

SubBuffers == {<<3, 4>>}

\* a buffer with room for the jmpbuf slot and 2 more bytes
InstalledBuffers == {<<8, PtrSize * JBLEN + 2>>}

InitInstalled(bufs, fill) ==
    /\ \E b \in bufs : \E r \in {jmpbuf_alloc(NewArena(b[1], b[2]))} :
          /\ r.ptr # NULL
          /\ arenas = <<[r.arena EXCEPT !.jmpbuf = r.ptr]>>
          /\ scope = <<[kind |-> "root", parent |-> 0,
                        saved |-> [r.arena EXCEPT !.jmpbuf = r.ptr]]>>
          /\ mem = memset0(Buffer(b, fill), r.zero)
          /\ jmpbufs = {r.ptr}
          /\ ret = [op |-> "ArenaOOM", val |-> ArenaOOM_value(r.ptr, 0),
                    via |-> "fresh", jb |-> r.ptr]
    /\ pc = "run"
    /\ slice = [data |-> NULL, len |-> 0, cap |-> 0]
    /\ elem = [size |-> 1, align |-> 1, seed |-> 0]
    /\ others = FALSE
    /\ str = [data |-> NULL, len |-> 0]
    /\ steps = 0
    /\ held = {}

InitSub == InitArena(SubBuffers, 0) \/ InitInstalled(InstalledBuffers, 0)

NextSub ==
    \/ \E i \in 1..Len(arenas) : \E req \in SubRequests : Alloc(i, req) /\ UNCHANGED <<steps, held>>
    \/ \E i \in 1..Len(arenas) : PushArenaOp(i) /\ UNCHANGED <<steps, held>>
    \/ \E h \in 1..Len(arenas) : \E t \in 1..Len(arenas) : PopArenaOp(h, t) /\ UNCHANGED <<steps, held>>
    \/ Abort /\ UNCHANGED <<steps, held>>
    \/ Continue /\ UNCHANGED <<steps, held>>

SpecSub == InitSub /\ [][NextSub]_vars

----------------------------------------------------------------------------
(* Specification of a slice that grows in one Arena; the caller may        *)
(* evaluate ArenaOOM, which allocates the jmpbuf slot, between two pushes. *)

\* element types and first values of the slice
SeqElems ==
    {e \in [size : {1, 2}, align : {1, 2}, seed : {0, 5}] : e.size % e.align = 0}

\* room for three growths of a slice of bytes, and of 2 byte elements
SeqBuffers == {<<8, 3 * MAX_ALIGN + 2>>, <<9, 6 * MAX_ALIGN + 4>>}

InitSeq ==
    /\ \E b \in SeqBuffers :
          /\ arenas = <<NewArena(b[1], b[2])>>
          /\ scope = <<[kind |-> "root", parent |-> 0, saved |-> NewArena(b[1], b[2])]>>
          /\ mem = Buffer(b, 0)
    /\ pc = "run"
    /\ ret = [op |-> "NewArena", val |-> NULL, via |-> "return", jb |-> NULL]
    /\ jmpbufs = {}
    /\ slice = [data |-> NULL, len |-> 0, cap |-> 0]
    /\ elem \in SeqElems
    /\ others = FALSE
    /\ str = [data |-> NULL, len |-> 0]
    /\ steps = 0
    /\ held = {}

NextSeq ==
    \/ PushOp(1) /\ UNCHANGED <<steps, held>>
    \/ ArenaOOM(1) /\ UNCHANGED <<steps, held>>
    \/ Abort /\ UNCHANGED <<steps, held>>
    \/ Continue /\ UNCHANGED <<steps, held>>

SpecSeq == InitSeq /\ [][NextSeq]_vars

----------------------------------------------------------------------------
(* Specification of an Arena and its scratch views: by-value copies made   *)
(* by Shadow, through which the caller allocates, pushes to the slice,     *)
(* builds strings and pushes tail arenas until the block of the view ends. *)
(* The caller does all of its work in such blocks.                         *)

ViewRequests ==
    [size : {1}, align : {1, 8}, count : {1, MaxCount}, flags : {0, F_PUSH_END}]

ViewBuffers == {<<8, MAX_ALIGN + 4>>}

\* a buffer with room for the jmpbuf slot and 4 more bytes
ViewInstalled == {<<8, PtrSize * JBLEN + 4>>}

\* the literals handed to astrcpy and astrcat, and the values formatted
Literals == {200, 210}
Numbers == {42}

InitView == InitArena(ViewBuffers, 0) \/ InitInstalled(ViewInstalled, 0)

\* the Arena objects declared after the first: views and their tails
Inner == 2..Len(arenas)

\* one more statement of a short run
Tick == steps < MaxSteps /\ steps' = steps + 1 /\ UNCHANGED held

NextView ==
    \/ Tick /\ \E i \in 1..Len(arenas) : Shadow(i)
    \/ Tick /\ \E k \in Inner : EndShadow(k)
    \/ Tick /\ \E i \in Inner : \E req \in ViewRequests : Alloc(i, req)
    \/ Tick /\ \E i \in Inner : PushOp(i)
    \/ Tick /\ \E i \in Inner : \E lit \in Literals : AstrCpy(i, lit)
    \/ Tick /\ \E i \in Inner : \E lit \in Literals : AstrCat(i, lit)
    \/ Tick /\ \E i \in Inner : \E n \in Numbers : AstrFmt(i, n)
    \/ Tick /\ \E i \in Inner : PushArenaOp(i)
    \/ Tick /\ \E h \in Inner : \E t \in Inner : PopArenaOp(h, t)
    \/ Tick /\ Abort
    \/ Tick /\ Continue

SpecView == InitView /\ [][NextView]_vars

----------------------------------------------------------------------------
(* Specification of the strings built in one Arena: the caller copies and  *)
(* appends literals, formats numbers, allocates zeroed bytes, and          *)
(* concatenates the strings it has a name for, in runs of a few statements.*)

\* spans of the string literals, the terminating NUL included
TextSpans ==
    {sp \in [data : DOMAIN Text, len : 0..MaxSpan] :
        Range(sp.data, sp.len) \subseteq DOMAIN Text}

\* spans of the bytes the Arena a has handed out since NewArena made it as a0
RegionSpans(a0, a) ==
    {sp \in [data : a0.beg..a.beg, len : 0..MaxSpan] : sp.data + sp.len <= a.beg}

\* the byte spans the caller can name
Spans == TextSpans \cup RegionSpans(scope[1].saved, arenas[1])

\* the strings the caller has a name for: str, and astr("ab"), astr("c"), astr("")
Named == {str} \cup {[data |-> lit, len |-> strlen(lit)] : lit \in Literals \cup {220}}

\* New(arena, char, count)
StrRequests == [size : {1}, align : {1}, count : {1}, flags : {0}]

StrBuffers == {<<8, 8>>}

InitStr == InitArena(StrBuffers, 0)

\* one more statement of a short run
StrTick == steps < MaxStr /\ steps' = steps + 1 /\ UNCHANGED held

NextStr ==
    \/ StrTick /\ \E lit \in Literals : AstrCpy(1, lit)
    \/ StrTick /\ \E lit \in Literals : AstrCat(1, lit)
    \/ StrTick /\ \E n \in Numbers : AstrFmt(1, n)
    \/ StrTick /\ \E head \in Named : \E tail \in Named : AstrConcat(1, head, tail)
    \/ StrTick /\ \E req \in StrRequests : Alloc(1, req)

SpecStr == InitStr /\ [][NextStr]_vars

----------------------------------------------------------------------------
(* Specification of Push on a slice the caller has built by hand: a block  *)
(* of cap elements taken from the Arena with New, of which len are in use, *)
(* followed or not by another allocation.                                  *)

MaxCap == 3

TripleElems == {e \in SeqElems : e.seed = 0}

TripleBuffers == {<<8, 2 * MAX_ALIGN>>}

\* New(arena, byte, 1, NO_INIT)
TripleRequests == [size : {1}, align : {1}, count : {1}, flags : {F_NO_INIT}]

InitTriple ==
    /\ elem \in TripleElems
    /\ \E b \in TripleBuffers : \E cap \in 0..MaxCap : \E len \in 0..cap : \E gap \in {0, 1} :
          /\ slice = [data |-> IF cap = 0 THEN NULL ELSE b[1], len |-> len, cap |-> cap]
          /\ arenas = <<[NewArena(b[1], b[2]) EXCEPT !.beg = b[1] + elem.size * cap + gap]>>
          /\ scope = <<[kind |-> "root", parent |-> 0, saved |-> NewArena(b[1], b[2])]>>
          /\ mem = Buffer(b, 0)
          /\ others = (gap # 0)
    /\ pc = "run"
    /\ ret = [op |-> "NewArena", val |-> NULL, via |-> "return", jb |-> NULL]
    /\ jmpbufs = {}
    /\ str = [data |-> NULL, len |-> 0]
    /\ steps = 0
    /\ held = {}

NextTriple ==
    \/ PushOp(1) /\ UNCHANGED <<steps, held>>
    \/ \E req \in TripleRequests : Alloc(1, req) /\ UNCHANGED <<steps, held>>

SpecTriple == InitTriple /\ [][NextTriple]_vars

----------------------------------------------------------------------------
(* Specification of an Arena and its tail arenas, pushed and popped in     *)
(* order, with a record of the blocks that allocations on the live Arena   *)
(* objects returned.                                                       *)

\* New(arena, byte, count, flags): 1 or 4 bytes from the front or the end
HeldRequests ==
    [size : {1}, align : {1}, count : {1, 4}, flags : {F_NO_INIT, F_NO_INIT + F_PUSH_END}]

HeldBuffers == {<<8, 8>>}

InitHeld == InitArena(HeldBuffers, 0)

\* p = arena_alloc(&arena_i, req): when p is a block, it is in use from now
AllocHeld(i, req) ==
    /\ steps < MaxAllocs
    /\ steps' = steps + 1
    /\ Alloc(i, req)
    /\ held' = IF arena_alloc(arenas[i], req.size, req.align, req.count, req.flags).out = "ok"
               THEN held \cup {[owner |-> i, lo |-> ret'.val,
                                hi |-> ret'.val + req.size * req.count, id |-> steps]}
               ELSE held

\* PopArena(arena_h, arena_t) for the newest Arena object t, pushed from h:
\* the blocks allocated on arena_t are not used afterwards
PopHeld(h, t) ==
    /\ t = Len(arenas)
    /\ scope[t].kind = "tail"
    /\ scope[t].parent = h
    /\ PopArenaOp(h, t)
    /\ held' = {x \in held : x.owner # t}
    /\ UNCHANGED steps

NextHeld ==
    \/ \E i \in 1..Len(arenas) : \E req \in HeldRequests : AllocHeld(i, req)
    \/ \E i \in 1..Len(arenas) : PushArenaOp(i) /\ UNCHANGED <<steps, held>>
    \/ \E h \in 1..Len(arenas) : \E t \in 1..Len(arenas) : PopHeld(h, t)

SpecHeld == InitHeld /\ [][NextHeld]_vars

----------------------------------------------------------------------------
(* Claims about one Arena, checked under Spec *)

\* what the call arena_alloc(&arena_i, req) returns and does in this state
Call(i, req) == arena_alloc(arenas[i], req.size, req.align, req.count, req.flags)

\* alignment padding and space left, in the words of the specification
PadOf(a, align) == (align - (a.beg % align)) % align
LeftOf(a, align) == (a.end - a.beg) - PadOf(a, align)

\* C1: in every reachable state the cursor of every Arena is at or below
\* its limit: end - beg >= 0.
C1_CursorNeverPastLimit ==
    \A i \in 1..Len(arenas) : arenas[i].end - arenas[i].beg >= 0

\* C2: every allocate call that succeeds returns an address that is a
\* multiple of the alignment asked for, whatever the flags.
C2_ReturnedAddressAligned ==
    [][\A req \in Requests :
          (Alloc(1, req) /\ Call(1, req).out = "ok")
              => ret'.val % req.align = 0]_vars

\* C3: an allocate call whose count * elementSize exceeds the space left
\* after the padding fails: no pointer comes back and the cursor stays.
C3_OverRequestFails ==
    [][\A req \in Requests :
          (Alloc(1, req) /\ req.size * req.count > LeftOf(arenas[1], req.align))
              => /\ arenas' = arenas
                 /\ \/ ret'.via = "longjmp"
                    \/ ret'.op = "alloc" /\ ret'.val = NULL]_vars

\* C4: an allocate call that fails under the indicator policy returns NULL
\* and leaves beg, end and jmpbuf of the Arena (and the buffer) as they were.
C4_IndicatorFailureKeepsRegion ==
    /\ [](\A i \in 1..Len(arenas) : \A req \in Requests : \A r \in {Call(i, req)} :
             r.out = "null" => r.ptr = NULL /\ r.arena = arenas[i])
    /\ [][(pc = "run" /\ ret'.op = "alloc" /\ ret'.val = NULL)
             => arenas' = arenas /\ mem' = mem /\ jmpbufs' = jmpbufs]_vars

\* the scenario of the specification: a 64 byte Arena at an 8-aligned
\* address is full, and the 1 byte soft-fail request has returned NULL
C4_Witness ==
    /\ scope[1].saved = NewArena(8, 64)
    /\ arenas[1] = [beg |-> 72, end |-> 72, jmpbuf |-> NULL]
    /\ Call(1, [size |-> 16, align |-> 8, count |-> 1, flags |-> F_OOM_NULL]).out = "null"
    /\ Call(1, [size |-> 1, align |-> 1, count |-> 1, flags |-> F_OOM_NULL]).out = "null"
    /\ pc = "run" /\ ret.op = "alloc" /\ ret.val = NULL

\* C5: an allocate call that finds the Arena exhausted returns NULL exactly
\* when the soft-fail flag is set or the Arena has no jmpbuf; otherwise it
\* does not return: control is in the ArenaOOM expression that filled the
\* Arena's jmpbuf, and that expression is true.
C5_ExhaustionPolicy ==
    /\ [](\A i \in 1..Len(arenas) : \A req \in Requests : \A r \in {Call(i, req)} :
             r.out \in {"null", "longjmp"}
                 => (r.out = "null"
                        <=> (HasFlag(req.flags, F_OOM_NULL) \/ arenas[i].jmpbuf = NULL)))
    /\ [][(pc = "run" /\ ret'.via = "longjmp")
             => /\ pc' = "handler"
                /\ ret'.op = "ArenaOOM" /\ ret'.val = TRUE
                /\ ret'.jb # NULL /\ ret'.jb \in jmpbufs
                /\ \E i \in 1..Len(arenas) :
                      /\ arenas[i].jmpbuf = ret'.jb
                      /\ \E req \in Requests : Call(i, req).out = "longjmp"
                /\ arenas' = arenas]_vars

\* an allocation has escaped to the recovery point of the Arena's jmpbuf
C5_Witness ==
    /\ pc = "handler"
    /\ ret.via = "longjmp"
    /\ ret.jb = arenas[1].jmpbuf

\* C6 as stated: ArenaOOM is true exactly when a fresh install succeeded and
\* false when it is resumed after an escape.
C6_TrueMeansInstalled ==
    ret.op = "ArenaOOM"
        => /\ ret.val = TRUE <=> ret.via = "fresh"
           /\ ret.via = "longjmp" => ret.val = FALSE

\* C6 amended: ArenaOOM is false exactly when a fresh install succeeded, and
\* true when the slot could not be allocated or when it is resumed after an
\* escape; the slot allocation itself never escapes, a failure to register
\* leaves jmpbuf NULL and is reported by the value true.
C6_FalseMeansInstalled ==
    /\ [](ret.op = "ArenaOOM"
             => /\ ret.val = FALSE <=> ret.via = "fresh"
                /\ ret.via = "fresh" => ret.jb # NULL /\ ret.jb \in jmpbufs
                /\ ret.via = "nojmpbuf" => ret.jb = NULL
                /\ ret.via \in {"longjmp", "nojmpbuf"} => ret.val = TRUE)
    /\ [][\A i \in 1..Len(arenas) :
             ArenaOOM(i) => /\ ret'.via \in {"fresh", "nojmpbuf"}
                            /\ arenas'[i].jmpbuf = ret'.jb]_vars

\* a second ArenaOOM on an Arena that has a continuation found no room for
\* the slot: it reported true instead of escaping
C6_Witness ==
    /\ ret.op = "ArenaOOM" /\ ret.via = "nojmpbuf" /\ ret.val = TRUE
    /\ jmpbufs # {}
    /\ arenas[1].jmpbuf = NULL
    /\ pc = "handler"

\* the directed distance from the cursor to the limit
Distance(a) == a.end - a.beg

\* C14: every successful arena_alloc on the Arena, for any count >= 0 and
\* any alignment, strictly decreases the distance from the cursor to the
\* limit, and by at least size * count.
C14_EveryCallConsumes ==
    /\ [](\A req \in Requests : \A r \in {Call(1, req)} :
             r.out = "ok"
                 => /\ Distance(Store(1, r.arena)[1]) < Distance(arenas[1])
                    /\ Distance(arenas[1]) - Distance(Store(1, r.arena)[1])
                           >= req.size * req.count)
    /\ [][(pc = "run" /\ ret'.op = "alloc" /\ arenas' # arenas)
             => Distance(arenas'[1]) < Distance(arenas[1])]_vars

\* C14 as amended: a successful arena_alloc never increases the distance
\* and decreases it by at least size * count; the decrease is strict when
\* count >= 1, while a call with count 0 may leave the distance as it was.
C14_CallConsumesRequest ==
    /\ [](\A req \in Requests : \A r \in {Call(1, req)} :
             r.out = "ok"
                 => /\ Distance(Store(1, r.arena)[1]) <= Distance(arenas[1])
                    /\ Distance(arenas[1]) - Distance(Store(1, r.arena)[1])
                           >= req.size * req.count
                    /\ req.count >= 1
                           => Distance(Store(1, r.arena)[1]) < Distance(arenas[1]))
    /\ [][(pc = "run" /\ ret'.op = "alloc")
             => /\ Distance(arenas'[1]) <= Distance(arenas[1])
                /\ arenas' # arenas
                       => Distance(arenas'[1]) < Distance(arenas[1])]_vars

\* a second successful allocation in a row has been made from each end
C14_Witness ==
    /\ ret.op = "alloc" /\ ret.val # NULL
    /\ arenas[1].beg > scope[1].saved.beg
    /\ arenas[1].end < scope[1].saved.end
    /\ jmpbufs = {}

----------------------------------------------------------------------------
(* Claims about tail arenas, checked under SpecSub *)

\* arena_t is the most recently pushed, not yet popped tail of arena_h
MostRecentOf(h, t) ==
    /\ scope[t].kind = "tail"
    /\ scope[t].parent = h
    /\ \A j \in (t + 1)..Len(scope) : ~(Live(j) /\ scope[j].parent = h)

\* arena_h is as PushArena left it when arena_t was pushed from it
AsPushed(h, t) == arenas[h] = PushArena(scope[t].saved).arena

\* C8: tail = PushArena(P) for a P with end - beg >= 0, then any
\* allocations against tail, then PopArena(P, tail) leave beg and end of P
\* equal to their values before the push.
C8_RoundTripRestoresParent ==
    [][\A h \in 1..Len(arenas) : \A t \in 1..Len(arenas) :
          (/\ PopArenaOp(h, t)
           /\ MostRecentOf(h, t)
           /\ t = Len(arenas)
           /\ scope[t].saved.end - scope[t].saved.beg >= 0
           /\ AsPushed(h, t))
              => /\ pc' = "run"
                 /\ arenas'[h].beg = scope[t].saved.beg
                 /\ arenas'[h].end = scope[t].saved.end]_vars

\* C9: PopArena with a tail that is not the most recently pushed, not yet
\* popped tail of that parent is stopped by the assert and leaves the
\* parent's end as it was.
C9_MismatchedPopTraps ==
    [][\A h \in 1..Len(arenas) : \A t \in 1..Len(arenas) :
          (PopArenaOp(h, t) /\ ~MostRecentOf(h, t))
              => /\ pc' = "trap"
                 /\ arenas'[h].end = arenas[h].end]_vars

----------------------------------------------------------------------------
(* Claims about the slice, checked under SpecSeq *)

\* the Arena had the space for every growth so far: the slice's capacity
\* lies in bytes the Arena has handed out
RoomSoFar ==
    slice.cap # 0 => /\ slice.data # NULL
                     /\ slice.data + elem.size * slice.cap <= arenas[1].beg

\* and it has the space the next Push needs
RoomToPush ==
    /\ RoomSoFar
    /\ \/ slice.len < slice.cap
       \/ elem.size * MAX_ALIGN
              <= IF slice.cap = 0 THEN LeftOf(arenas[1], elem.align)
                                  ELSE arenas[1].end - arenas[1].beg

\* C10: pushes to a slice that started as the zero triple, with room in the
\* Arena and no other allocation in between, grow it in place after the
\* first growth: data never changes, every push adds one to len, and
\* elements 0..len-1 hold the pushed values in order.
C10_AppendInPlace ==
    /\ []((~others /\ RoomSoFar /\ pc # "ub")
             => \A k \in 0..(slice.len - 1) :
                   LoadElem(mem, slice.data + elem.size * k, elem.size) = Value(k))
    /\ [][(PushOp(1) /\ ~others /\ RoomToPush)
             => /\ pc' = "run"
                /\ slice'.len = slice.len + 1
                /\ slice.cap # 0 => slice'.data = slice.data
                /\ ret'.val = slice.data' + elem.size * slice.len]_vars

\* 48 two-byte elements were pushed: the slice has grown in place twice
C10_Witness ==
    /\ ~others
    /\ RoomSoFar
    /\ pc = "run"
    /\ elem = [size |-> 2, align |-> 2, seed |-> 5]
    /\ slice = [data |-> 10, len |-> 3 * MAX_ALIGN, cap |-> 3 * MAX_ALIGN]
    /\ LoadElem(mem, 10 + 2 * 47, 2) = (5 + 211 * 47) % 65536

\* the Arena has the space the next Push needs, whichever way it grows
RoomToGrow ==
    \/ slice.len < slice.cap
    \/ /\ slice.cap = 0
       /\ elem.size * MAX_ALIGN <= LeftOf(arenas[1], elem.align)
    \/ /\ slice.cap # 0
       /\ grow_inplace(slice, elem.size, arenas[1])
       /\ elem.size * MAX_ALIGN <= arenas[1].end - arenas[1].beg
    \/ /\ slice.cap # 0
       /\ ~grow_inplace(slice, elem.size, arenas[1])
       /\ elem.size * (slice.cap + CDiv(slice.cap, 2)) <= LeftOf(arenas[1], elem.align)

\* the block lies in bytes handed out and elements 0..len-1 hold the
\* pushed values in order
Intact ==
    /\ RoomSoFar
    /\ \A k \in 0..(slice.len - 1) :
          LoadElem(mem, slice.data + elem.size * k, elem.size) = Value(k)

\* C16: for a slice that started as the zero triple and is changed by Push
\* only, with other allocations from the Arena between the pushes and room
\* in the Arena: after every Push elements 0..len-2 hold the values pushed
\* before, in order, and data changes only when the block did not end at
\* the Arena's cursor; the other allocations leave the elements alone.
C16_PushKeepsElements ==
    [][/\ (PushOp(1) /\ Intact /\ RoomToGrow)
           => /\ pc' = "run"
              /\ slice'.len = slice.len + 1
              /\ Intact'
              /\ \A k \in 0..(slice.len - 1) :
                    LoadElem(mem', slice'.data + elem.size * k, elem.size)
                        = LoadElem(mem, slice.data + elem.size * k, elem.size)
              /\ (slice.cap # 0 /\ slice'.data # slice.data)
                     => slice.data + elem.size * slice.cap # arenas[1].beg
       /\ (ArenaOOM(1) /\ Intact) => Intact' /\ slice' = slice]_vars

\* a jmpbuf was allocated behind the 16 byte block at address 9, and the
\* 17th Push has moved the 16 elements to a block of 24 behind the jmpbuf
C16_Witness ==
    /\ others
    /\ Intact
    /\ pc = "run"
    /\ elem.size = 1
    /\ arenas[1].jmpbuf = 32
    /\ slice = [data |-> 32 + PtrSize * JBLEN, len |-> MAX_ALIGN + 1,
                cap |-> MAX_ALIGN + MAX_ALIGN \div 2]

\* C19: when a Push has to grow the slice, the Arena is exhausted and no
\* jmpbuf is installed, the slice does not claim storage it did not get:
\* cap is not increased, data is not replaced by NULL, and the block
\* [data, data + size * cap) still lies in bytes the Arena handed out.
C19_FailedGrowthKeepsSlice ==
    [][(/\ PushOp(1)
        /\ slice.len >= slice.cap
        /\ ~RoomToGrow
        /\ arenas[1].jmpbuf = NULL
        /\ RoomSoFar)
           => /\ slice'.cap = slice.cap
              /\ slice'.data = slice.data
              /\ RoomSoFar']_vars

----------------------------------------------------------------------------
(* Claims about scratch views, checked under SpecView *)

\* the views that are in scope
Views == {k \in 1..Len(scope) : Live(k) /\ scope[k].kind = "shadow"}

\* C7: whatever is done through a view (allocations, pushes to the slice,
\* string operations, astrfmt, tail arenas pushed from the view), the Arena
\* it was copied from keeps its beg and end, and when the view's block ends
\* that Arena answers every allocation as it would have before the Shadow.
C7_ViewLeavesParent ==
    /\ [](\A k \in Views :
             /\ arenas[scope[k].parent].beg = scope[k].saved.beg
             /\ arenas[scope[k].parent].end = scope[k].saved.end)
    /\ [][\A k \in Views :
             EndShadow(k)
                 => \A req \in ViewRequests :
                       arena_alloc(arenas'[scope[k].parent],
                                   req.size, req.align, req.count, req.flags)
                     = arena_alloc(scope[k].saved,
                                   req.size, req.align, req.count, req.flags)]_vars

\* the block of a view has ended in which elements were pushed and a string
\* was built: the bytes are in the buffer, the Arena is as NewArena made it
C7_Witness ==
    /\ ret.op = "EndShadow"
    /\ Len(arenas) = 1
    /\ slice.len > 0
    /\ str.len > 0
    /\ \E x \in DOMAIN mem : mem[x] # 0
    /\ arenas[1].beg = scope[1].saved.beg
    /\ arenas[1].end = scope[1].saved.end

----------------------------------------------------------------------------
(* Claims about strings, checked under SpecStr *)

\* the bytes of the span sp, in order
Bytes(m, sp) == [k \in 1..sp.len |-> Byte(m, sp.data + (k - 1))]

\* the Arena has a free byte for every byte that n bytes of input, copied
\* twice over, can need
RoomFor(n) == arenas[1].end - arenas[1].beg >= 2 * n

\* astrconcat(arena, astrconcat(arena, a, b), c)
ConcatLeft(a, b, c) ==
    LET ab == astrconcat(arenas[1], a, b, mem)
    IN  IF ab.out # "ok" THEN ab ELSE astrconcat(ab.arena, ab.str, c, ab.mem)

\* astrconcat(arena, a, astrconcat(arena, b, c))
ConcatRight(a, b, c) ==
    LET bc == astrconcat(arenas[1], b, c, mem)
    IN  IF bc.out # "ok" THEN bc ELSE astrconcat(bc.arena, a, bc.str, bc.mem)

\* C11: for byte spans a, b, c (empty, in the literals, in the Arena, at its
\* tip, overlapping) and room in the Arena, both ways of concatenating the
\* three return a string whose bytes are those of a, then b, then c.
C11_ConcatAssociative ==
    \A a \in Spans : \A b \in Spans : \A c \in Spans :
        RoomFor(a.len + b.len + c.len)
            => \A l \in {ConcatLeft(a, b, c)} : \A r \in {ConcatRight(a, b, c)} :
                  /\ l.out = "ok" /\ r.out = "ok"
                  /\ Bytes(l.mem, l.str) = Bytes(mem, a) \o Bytes(mem, b) \o Bytes(mem, c)
                  /\ Bytes(r.mem, r.str) = Bytes(l.mem, l.str)

\* C12: astrcmp(x, y) is true exactly when x and y have the same length and
\* the same bytes, wherever they are stored; strings that are equal have
\* the same astrhash, and astrhash is 64-bit FNV-1a: it gives the published
\* values for "", "a", "c" and "ab".
C12_EqualsAndHash ==
    \A x \in Spans :
        /\ \A y \in Spans :
              /\ astrcmp(x, y, mem) <=> Bytes(mem, x) = Bytes(mem, y)
              /\ astrcmp(x, y, mem) => astrhash(x, mem) = astrhash(y, mem)
        /\ Bytes(mem, x) = <<>> => astrhash(x, mem) = <<37, 35, 34, 132, 228, 156, 242, 203>>
        /\ Bytes(mem, x) = <<97>> => astrhash(x, mem) = <<140, 236, 1, 134, 76, 220, 99, 175>>
        /\ Bytes(mem, x) = <<99>> => astrhash(x, mem) = <<242, 239, 1, 134, 76, 222, 99, 175>>
        /\ Bytes(mem, x) = <<97, 98>> => astrhash(x, mem) = <<106, 152, 69, 181, 7, 68, 156, 8>>

\* "ab" was copied into the Arena: the copy and the literal are equal and
\* hash alike, the copy and its first byte are not equal
C12_Witness ==
    /\ arenas[1].beg >= 10
    /\ astrcmp([data |-> 8, len |-> 2], [data |-> 200, len |-> 2], mem)
    /\ astrhash([data |-> 8, len |-> 2], mem) = astrhash([data |-> 200, len |-> 2], mem)
    /\ ~astrcmp([data |-> 8, len |-> 2], [data |-> 8, len |-> 1], mem)
    /\ astrcmp([data |-> 8, len |-> 0], [data |-> 220, len |-> 0], mem)

\* C13: every non-empty string astrconcat returns ends at the Arena's tip
\* (data + len = beg), for any head and tail, so that a concat with the
\* result as head appends in place: its data is the head's data.
C13_ConcatEndsAtTip ==
    [][\A head \in Named : \A tail \in Named :
          (/\ AstrConcat(1, head, tail)
           /\ RoomFor(head.len + tail.len)
           /\ pc' = "run"
           /\ str'.len # 0)
              => /\ str'.data + str'.len = arenas'[1].beg
                 /\ \A next \in TextSpans :
                       astrconcat(arenas'[1], str', next, mem').str.data = str'.data]_vars

\* C15: for a non-empty head and any tail (in the literals, in the Arena,
\* ending at its tip, tail a suffix or the whole of head) and room in the
\* Arena, astrconcat returns a string of length head.len + tail.len whose
\* bytes are those of head followed by those of tail, all below the
\* Arena's cursor, and the bytes of head and tail are as they were.
C15_ConcatAppendsTail ==
    \A head \in Spans : \A tail \in Spans :
        (head.len # 0 /\ RoomFor(head.len + tail.len))
            => \A r \in {astrconcat(arenas[1], head, tail, mem)} :
                  /\ r.out = "ok"
                  /\ r.str.len = head.len + tail.len
                  /\ Bytes(r.mem, r.str) = Bytes(mem, head) \o Bytes(mem, tail)
                  /\ r.str.data + r.str.len <= r.arena.beg
                  /\ Bytes(r.mem, head) = Bytes(mem, head)
                  /\ Bytes(r.mem, tail) = Bytes(mem, tail)

----------------------------------------------------------------------------
(* Claims about slices built by the caller, checked under SpecTriple *)

\* C18: for every slice with 0 <= len <= cap (any cap, 1 included) and an
\* Arena with room, after Push returns len is one more than before and at
\* most cap: the slot returned has an index below cap and lies inside the
\* slice's block.
C18_PushSlotInsideBlock ==
    [][(/\ PushOp(1)
        /\ 0 <= slice.len /\ slice.len <= slice.cap
        /\ RoomSoFar
        /\ RoomToGrow)
           => /\ pc' = "run"
              /\ slice'.len = slice.len + 1
              /\ slice'.len <= slice'.cap
              /\ slice'.data <= ret'.val
              /\ ret'.val + elem.size <= slice'.data + elem.size * slice'.cap]_vars

\* C20: CC_CMPR agrees with astrcmp: for all strings x and y (of different
\* lengths with one a prefix of the other, with zero bytes) it returns 0
\* exactly when astrcmp(x, y) is true, so keys that compare equal have the
\* same CC_HASH.
C20_CompareAgreesWithEquals ==
    \A x \in Spans : \A y \in Spans : \A c \in CC_CMPR(x, y, mem) :
        /\ (c = 0) <=> astrcmp(x, y, mem)
        /\ (c = 0) => CC_HASH(x, mem) = CC_HASH(y, mem)

----------------------------------------------------------------------------
(* Claims about the blocks of an Arena and its tails, checked under SpecHeld *)

\* C17: for successful allocations with count >= 1 on an Arena and on the
\* tails pushed from it and popped in order, the blocks returned on the
\* parent and on every tail not yet popped are pairwise disjoint and lie
\* in the buffer; PushArena returns a tail over the upper
\* floor((end - beg) / 2) bytes of the parent's free space and does not
\* move the parent's beg.
C17_LiveBlocksDisjoint ==
    /\ [](\A x \in held :
             /\ scope[1].saved.beg <= x.lo /\ x.hi <= scope[1].saved.end
             /\ \A y \in held : x # y => (x.hi <= y.lo \/ y.hi <= x.lo))
    /\ [][\A i \in 1..Len(arenas) :
             (PushArenaOp(i) /\ pc' = "run")
                 => /\ arenas'[i].beg = arenas[i].beg
                    /\ arenas'[Len(arenas')]
                           = [arenas[i] EXCEPT
                                 !.beg = arenas[i].end
                                            - CDiv(arenas[i].end - arenas[i].beg, 2)]]_vars

====
